---- MODULE Spec2Model ----
(***************************************************************************)
(* Model of the admin handlers of cmd/litestream: the config reload        *)
(* handler (ConfigHandler.ServeHTTP), which reconciles the running set     *)
(* ReplicateCommand.DBs with a freshly read configuration, and the         *)
(* checkpoint / sync / snapshot handlers, which look up a database in the  *)
(* same running set without any lock and invoke operations on it.          *)
(*                                                                         *)
(* ReplicateCommand.DBs is a Go slice: a header (backing array, length)    *)
(* over a backing array that the removal pass compacts in place while a    *)
(* range loop is still iterating over the header it captured.  The model   *)
(* keeps the backing arrays and the headers apart for that reason.         *)
(*                                                                         *)
(* Granularity: one action is one step of a request that other requests    *)
(* can interleave with.  A reload is split at every call that blocks       *)
(* (NewDBFromConfig / Open, Close) and at every write of h.c.DBs; the      *)
(* lookup is split at every element it reads.  The inner scans of the      *)
(* reload (config.go:62-67, 93-98, 107-112) are each taken in one step.    *)
(*                                                                         *)
(* Five specifications share the actions:                                  *)
(*   Spec         reload requests served one at a time;                    *)
(*   LookupSpec   the same, with a snapshot request served on another      *)
(*                goroutine;                                               *)
(*   RequestSpec  reload, checkpoint, sync and snapshot requests, all      *)
(*                served one at a time;                                    *)
(*   ConcSpec     reload requests served concurrently;                     *)
(*   ConvSpec     reload requests served one at a time that, from some     *)
(*                moment on, all read the same document while Open and     *)
(*                Close succeed, under weak fairness.                      *)
(***************************************************************************)
EXTENDS Integers, Sequences, FiniteSets, TLC

\* ---------------------------------------------------------------- bounds
\* database paths, and the zero value of req.DatabasePath
Paths == {"a", "b", "c"}
NoPath == ""
\* entries of a configuration document under Spec
MaxDocLen == 2
\* handles of one path that are reachable at the same time
MaxGen == 2
\* goroutines serving reload requests
Reloaders == {1, 2}
\* reload requests under ConcSpec, and the entries of their documents
MaxConcReloads == 2
MaxConcDocLen == 1
\* entries of a configuration document under LookupSpec
MaxLookupDocLen == 1
\* entries of a configuration document under RequestSpec
MaxRequestDocLen == 1
\* entries of a configuration document under ConvSpec
MaxConvDocLen == 1

\* a handle (*litestream.DB) is its path and the generation that tells apart
\* the handles NewDBFromConfig builds for one path; Nil is the nil pointer
Handles == Paths \X (1..MaxGen)
Nil == <<>>

\* litestream.DB.Path()
Path(h) == h[1]

\* the handlers that operate on a database, r.Method, whether the body
\* decodes, req.Mode / req.CheckpointMode, and the names of replicas
Kinds == {"checkpoint", "sync", "snapshot"}
Methods == {"POST", "GET"}
Bodies == {"json", "garbage"}
ModeStrings == {"", "PASSIVE", "FULL", "RESTART", "TRUNCATE", "full"}
ReplicaNames == {"r1", "r2"}
NoName == ""

\* a configuration document: the ordered paths of Config.DBs
DocsUpTo(n) == UNION {[1..k -> Paths] : k \in 0..n}
Docs == DocsUpTo(MaxDocLen)
NoDoc == <<NoPath>>

VARIABLES
    quota,      \* reload requests the concurrent scenario may still start
    target,     \* the document every reload reads from now on, NoDoc: any document
    cmd,        \* "set" | "nil": the *ReplicateCommand the handlers were built with
    Config,     \* h.c.Config.DBs, as the sequence of the entries' paths
    DBs,        \* h.c.DBs, the slice header [arr, len]
    arrays,     \* the backing arrays allocated so far, arrays[k] of length cap
    hstate,     \* of every handle: "free" | "open" | "openfail" | "closed" | "closefail"
    pc,         \* position of each config reload request
    rdoc,       \* the slice the addition loop ranges over (config.go:58)
    ri,         \* index of the addition loop
    rrange,     \* the slice header the removal loop ranges over (config.go:91)
    rj,         \* index of the removal loop
    rdb,        \* db (config.go:70) or oldDB (config.go:91) of the step in progress
    pre,        \* history: the running set when the latest reload started
    opens,      \* history: handles Open was called on by the latest reload
    added,      \* history: handles appended by the latest reload
    closes,     \* history: handles Close was called on by the latest reload
    status,     \* history: response code of the latest reload, 0 while it runs
    failAt,     \* history: the step that produced a 500
    dpc,        \* position of the checkpoint / sync / snapshot request
    dpath,      \* req.DatabasePath
    drange,     \* the slice header the lookup loop ranges over (checkpoint.go:71)
    didx,       \* index of the lookup loop
    ddb,        \* db (checkpoint.go:70)
    dstatus,    \* response code of the request so far, 0 none
    dreq,       \* the handler and r.Method, the body, and the fields of req
    drep,       \* rep (checkpoint.go:87), as the name of the replica of db
    dmode,      \* mode (checkpoint.go:104)
    dops,       \* history: the operations the request has invoked on db and rep
    dseen,      \* history: the handles the lookup loop has read
    dclean,     \* history: no write to the running set since the lookup began
    dduring     \* history: the lookup in progress overlaps the latest reload

heapVars == <<arrays, hstate>>
progVars == <<cmd, Config, DBs, heapVars>>
relVars  == <<pc, rdoc, ri, rrange, rj, rdb>>
histVars == <<pre, opens, added, closes, status, failAt>>
dispVars == <<dpc, dpath, drange, didx, ddb, dstatus, dseen, dreq, drep, dmode, dops>>
dhistVars == <<dclean, dduring>>
vars == <<quota, target, progVars, relVars, histVars, dispVars, dhistVars>>

\* ------------------------------------------------------- slices and helpers
NilSlice == [arr |-> 0, len |-> 0]

Cap(s) == IF s.arr = 0 THEN 0 ELSE Len(arrays[s.arr])

\* the elements s[0:len] of a slice
View(s) == IF s.arr = 0 THEN <<>> ELSE SubSeq(arrays[s.arr], 1, s.len)

Range(seq) == {seq[k] : k \in 1..Len(seq)}

PathsOf(seq) == {Path(seq[k]) : k \in 1..Len(seq)}

RECURSIVE SelectNot(_, _)
SelectNot(seq, x) ==
    IF seq = <<>> THEN <<>>
    ELSE IF Head(seq) # x THEN <<Head(seq)>> \o SelectNot(Tail(seq), x)
    ELSE SelectNot(Tail(seq), x)

\* the capacity append gives a slice that is full: 1 for the nil slice, then
\* doubled (the growth of the Go runtime for small slices)
GrowCap(c) == IF c = 0 THEN 1 ELSE 2 * c

\* h.c.DBs = append(h.c.DBs, db): the pair <<header', arrays'>>
AppendDB(s, db) ==
    IF s.len < Cap(s)
    THEN <<[arr |-> s.arr, len |-> s.len + 1],
           [arrays EXCEPT ![s.arr][s.len + 1] = db]>>
    ELSE <<[arr |-> Len(arrays) + 1, len |-> s.len + 1],
           Append(arrays, [k \in 1..GrowCap(Cap(s)) |->
                              IF k <= s.len THEN arrays[s.arr][k]
                              ELSE IF k = s.len + 1 THEN db ELSE Nil])>>

\* mutant: removal by moving the last element into the slot of oldDB
CompactDBs_SwapRemove(s, oldDB) ==
    LET v == View(s)
        hit == {k \in 1..Len(v) : v[k] = oldDB}
        at == CHOOSE k \in hit : TRUE
    IN IF hit = {} THEN <<s, arrays>>
       ELSE <<[arr |-> s.arr, len |-> s.len - 1],
              [arrays EXCEPT ![s.arr][at] = v[Len(v)]]>>

\* the in-place compaction that drops oldDB: the pair <<header', arrays'>>
CompactDBs(s, oldDB) ==
    LET kept == SelectNot(View(s), oldDB)
    IN IF s.arr = 0 THEN <<s, arrays>>
       ELSE <<[arr |-> s.arr, len |-> Len(kept)],
              [arrays EXCEPT ![s.arr] =
                  [k \in 1..Len(arrays[s.arr]) |->
                      IF k <= Len(kept) THEN kept[k] ELSE arrays[s.arr][k]]]>>

\* mutant: action is recomputed by every iteration, the last one decides
NeedsAdd_LastOnly(path, running) ==
    running = <<>> \/ Path(running[Len(running)]) # path

\* action := Add unless a running handle has the entry's path
NeedsAdd(path, running) == \A k \in 1..Len(running) : Path(running[k]) # path

\* mutant: action is recomputed by every iteration, the last one decides
NeedsRemove_LastOnly(oldDB, doc) ==
    doc = <<>> \/ doc[Len(doc)] # Path(oldDB)

\* action := Remove unless an entry of the current config has the handle's path
NeedsRemove(oldDB, doc) == \A k \in 1..Len(doc) : doc[k] # Path(oldDB)

\* db.Replicas of the handle NewDBFromConfig builds for a path: the replica
\* names of the path's configuration entry, in order
Replicas(h) ==
    IF Path(h) = "a" THEN <<"r1", "r2">>
    ELSE IF Path(h) = "b" THEN <<"r1">>
    ELSE <<>>

\* a request: the handler it is routed to, r.Method, whether its body
\* decodes, and the decoded req.ReplicaName, req.Mode / req.CheckpointMode and
\* req.Sync / req.Checkpoint / req.Cleanup (zero values when it does not decode;
\* a snapshot request has no mode)
NoReq ==
    [kind |-> "none", method |-> "", body |-> "", name |-> NoName, mode |-> "", flag |-> FALSE]

Requests ==
    {q \in [kind : Kinds, method : Methods, body : Bodies,
            name : ReplicaNames \cup {NoName}, mode : ModeStrings, flag : BOOLEAN] :
        /\ q.kind = "snapshot" => q.mode = ""
        /\ q.body = "json" => q.name # NoName
        /\ q.body # "json" => (q.name = NoName /\ q.mode = "" /\ ~q.flag)}

\* mutant: the body is decoded before the method is looked at
Precheck_BodyFirst(q) ==
    IF cmd = "nil" THEN 500
    ELSE IF q.body # "json" THEN 400
    ELSE IF q.method # "POST" THEN 405
    ELSE 0

\* the checks before the lookup: the status of the first that fails, 0 if none
Precheck(q) ==
    IF cmd = "nil" THEN 500
    ELSE IF q.method # "POST" THEN 405
    ELSE IF q.body # "json" THEN 400
    ELSE 0

\* mutant: the mode string is compared ignoring case
ParseMode_IgnoreCase(m) ==
    IF m \in {"FULL", "full"} THEN "FULL"
    ELSE IF m = "RESTART" THEN "RESTART"
    ELSE IF m = "TRUNCATE" THEN "TRUNCATE"
    ELSE "PASSIVE"

\* mode := CheckpointModePassive, unless req.Mode is FULL, RESTART or TRUNCATE
ParseMode(m) ==
    IF m = "FULL" THEN "FULL"
    ELSE IF m = "RESTART" THEN "RESTART"
    ELSE IF m = "TRUNCATE" THEN "TRUNCATE"
    ELSE "PASSIVE"

\* mutant: the comparison inverted
Matches_Inverted(cdb, path) == Path(cdb) # path

\* cdb.Path() == req.DatabasePath
Matches(cdb, path) == Path(cdb) = path

\* Memory no live reference reaches cannot be observed again: a slot of a
\* backing array that no live slice header covers is zeroed (append writes it
\* before it extends a header over it), and a handle that no live slot, local
\* or history variable refers to is returned to the free pool.
CleanArrays(arrs, hdrs) ==
    [k \in DOMAIN arrs |->
        [i \in DOMAIN arrs[k] |->
            IF \E s \in hdrs : s.arr = k /\ i <= s.len THEN arrs[k][i] ELSE Nil]]

Collect(rawArrays, rawState) ==
    \E hdrs \in {{DBs', drange'} \cup {rrange'[r] : r \in Reloaders}} :
    \E arrs \in {CleanArrays(rawArrays, hdrs)} :
    \E live \in {UNION {Range(arrs[k]) : k \in DOMAIN arrs}
                    \cup {rdb'[r] : r \in Reloaders} \cup {ddb'} \cup Range(dseen')
                    \cup Range(pre') \cup Range(opens') \cup Range(added') \cup Range(closes')} :
        /\ arrays' = arrs
        /\ hstate' = [h \in Handles |-> IF h \in live THEN rawState[h] ELSE "free"]

\* the handle NewDBFromConfig builds for a path: one no reference reaches
FreeGens(path) == {g \in 1..MaxGen : hstate[<<path, g>>] = "free"}
NewHandle(path) == <<path, CHOOSE g \in FreeGens(path) : \A f \in FreeGens(path) : g <= f>>

Idle == \A r \in Reloaders : pc[r] = "idle"

Running == \E r \in Reloaders : pc[r] \notin {"idle", "done"}

\* which requests may start: one at a time (on any goroutine, the first
\* stands for all), or concurrently up to the quota; a lookup in progress
\* overlaps at most one reload request
Admit(r, serial) ==
    /\ IF serial THEN Idle /\ r = 1 ELSE quota > 0
    /\ quota' = IF serial THEN quota ELSE quota - 1
    /\ UNCHANGED target
    /\ dpc # "idle" => ~dduring
    /\ dduring' = (dpc # "idle")

\* ------------------------------------------------------------------- Init
Init ==
    /\ quota = MaxConcReloads
    /\ target = NoDoc
    /\ cmd \in {"set", "nil"}
    /\ Config = <<>>
    /\ DBs = NilSlice
    /\ arrays = <<>>
    /\ hstate = [h \in Handles |-> "free"]
    /\ pc = [r \in Reloaders |-> "idle"]
    /\ rdoc = [r \in Reloaders |-> <<>>]
    /\ ri = [r \in Reloaders |-> 0]
    /\ rrange = [r \in Reloaders |-> NilSlice]
    /\ rj = [r \in Reloaders |-> 0]
    /\ rdb = [r \in Reloaders |-> Nil]
    /\ pre = <<>>
    /\ opens = <<>>
    /\ added = <<>>
    /\ closes = <<>>
    /\ status = 0
    /\ failAt = "none"
    /\ dpc = "idle"
    /\ dpath = NoPath
    /\ drange = NilSlice
    /\ didx = 0
    /\ ddb = Nil
    /\ dstatus = 0
    /\ dreq = NoReq
    /\ drep = NoName
    /\ dmode = "none"
    /\ dops = <<>>
    /\ dseen = <<>>
    /\ dclean = TRUE
    /\ dduring = FALSE

\* --------------------------------------------------- config reload handler
\* w.WriteHeader(code) and return: the locals of the request die
Return(r, code, step) ==
    /\ pc' = [pc EXCEPT ![r] = "done"]
    /\ rdoc' = [rdoc EXCEPT ![r] = <<>>]
    /\ ri' = [ri EXCEPT ![r] = 0]
    /\ rrange' = [rrange EXCEPT ![r] = NilSlice]
    /\ rj' = [rj EXCEPT ![r] = 0]
    /\ rdb' = [rdb EXCEPT ![r] = Nil]
    /\ status' = code
    /\ failAt' = step

\* a request arrives: the history variables now describe this request
HistStart ==
    /\ pre' = View(DBs)
    /\ opens' = <<>>
    /\ added' = <<>>
    /\ closes' = <<>>

\* the response has been delivered: the history of the request is dropped
ReloadEnd(r) ==
    /\ pc[r] = "done"
    /\ pc' = [pc EXCEPT ![r] = "idle"]
    /\ pre' = <<>>
    /\ opens' = <<>>
    /\ added' = <<>>
    /\ closes' = <<>>
    /\ status' = 0
    /\ failAt' = "none"
    /\ UNCHANGED <<quota, target, cmd, Config, DBs, rdoc, ri, rrange, rj, rdb,
                   dispVars, dhistVars>>
    /\ Collect(arrays, hstate)

\* h.c == nil: 500
ReloadNil(r, serial) ==
    /\ pc[r] = "idle"
    /\ cmd = "nil"
    /\ Admit(r, serial)
    /\ HistStart
    /\ Return(r, 500, "nil")
    /\ UNCHANGED <<cmd, Config, DBs, dispVars, dclean>>
    /\ Collect(arrays, hstate)

\* mutant: the zero Config is stored before the error is looked at
ReloadReadFail_StoresConfig(r, serial) ==
    /\ pc[r] = "idle"
    /\ cmd = "set"
    /\ Admit(r, serial)
    /\ HistStart
    /\ Return(r, 500, "read")
    /\ Config' = <<>>
    /\ UNCHANGED <<cmd, DBs, dispVars, dclean>>
    /\ Collect(arrays, hstate)

\* ReadConfigFile fails: 500
ReloadReadFail(r, serial) ==
    /\ pc[r] = "idle"
    /\ cmd = "set"
    /\ Admit(r, serial)
    /\ HistStart
    /\ Return(r, 500, "read")
    /\ UNCHANGED <<cmd, Config, DBs, dispVars, dclean>>
    /\ Collect(arrays, hstate)

\* ReadConfigFile succeeds; h.c.Config = newConfig; the addition loop
\* evaluates its range expression
ReloadBegin(r, doc, serial) ==
    /\ pc[r] = "idle"
    /\ cmd = "set"
    /\ Admit(r, serial)
    /\ HistStart
    /\ Config' = doc
    /\ pc' = [pc EXCEPT ![r] = "add"]
    /\ rdoc' = [rdoc EXCEPT ![r] = doc]
    /\ ri' = [ri EXCEPT ![r] = 1]
    /\ status' = 0
    /\ failAt' = "none"
    /\ UNCHANGED <<cmd, DBs, rrange, rj, rdb, dispVars, dclean>>
    /\ Collect(arrays, hstate)

\* mutant: the addition loop is left after its first iteration
AddCheck_EarlyRemove(r) ==
    /\ UNCHANGED <<quota, target>>
    /\ pc[r] = "add"
    /\ IF ri[r] > Len(rdoc[r]) \/ ri[r] > 1
       THEN /\ pc' = [pc EXCEPT ![r] = "remove"]
            /\ rrange' = [rrange EXCEPT ![r] = DBs]
            /\ rj' = [rj EXCEPT ![r] = 1]
            /\ UNCHANGED ri
       ELSE IF NeedsAdd(rdoc[r][ri[r]], View(DBs))
       THEN /\ pc' = [pc EXCEPT ![r] = "open"]
            /\ UNCHANGED <<ri, rrange, rj>>
       ELSE /\ ri' = [ri EXCEPT ![r] = ri[r] + 1]
            /\ UNCHANGED <<pc, rrange, rj>>
    /\ UNCHANGED <<progVars, rdoc, rdb, histVars, dispVars, dhistVars>>

\* one iteration of the addition loop up to the decision Add / Keep, or the
\* end of the loop, where the removal loop evaluates its range expression
AddCheck(r) ==
    /\ UNCHANGED <<quota, target>>
    /\ pc[r] = "add"
    /\ IF ri[r] > Len(rdoc[r])
       THEN /\ pc' = [pc EXCEPT ![r] = "remove"]
            /\ rrange' = [rrange EXCEPT ![r] = DBs]
            /\ rj' = [rj EXCEPT ![r] = 1]
            /\ UNCHANGED ri
       ELSE IF NeedsAdd(rdoc[r][ri[r]], View(DBs))
       THEN /\ pc' = [pc EXCEPT ![r] = "open"]
            /\ UNCHANGED <<ri, rrange, rj>>
       ELSE /\ ri' = [ri EXCEPT ![r] = ri[r] + 1]
            /\ UNCHANGED <<pc, rrange, rj>>
    /\ UNCHANGED <<progVars, rdoc, rdb, histVars, dispVars, dhistVars>>

\* NewDBFromConfig fails: 500
AddNewFail(r) ==
    /\ UNCHANGED <<quota, target>>
    /\ pc[r] = "open"
    /\ Return(r, 500, "new")
    /\ UNCHANGED <<cmd, Config, DBs, pre, opens, added, closes, dispVars, dhistVars>>
    /\ Collect(arrays, hstate)

\* mutant: the handle is appended before the error of Open is looked at
AddOpenFail_Appends(r) ==
    /\ UNCHANGED <<quota, target>>
    /\ pc[r] = "open"
    /\ FreeGens(rdoc[r][ri[r]]) # {}
    /\ opens' = Append(opens, NewHandle(rdoc[r][ri[r]]))
    /\ DBs' = AppendDB(DBs, NewHandle(rdoc[r][ri[r]]))[1]
    /\ Return(r, 500, "open")
    /\ UNCHANGED <<cmd, Config, pre, added, closes, dispVars, dhistVars>>
    /\ Collect(AppendDB(DBs, NewHandle(rdoc[r][ri[r]]))[2],
               [hstate EXCEPT ![NewHandle(rdoc[r][ri[r]])] = "openfail"])

\* NewDBFromConfig succeeds, db.Open fails: 500
AddOpenFail(r) ==
    /\ UNCHANGED <<quota, target>>
    /\ pc[r] = "open"
    /\ FreeGens(rdoc[r][ri[r]]) # {}
    /\ opens' = Append(opens, NewHandle(rdoc[r][ri[r]]))
    /\ Return(r, 500, "open")
    /\ UNCHANGED <<cmd, Config, DBs, pre, added, closes, dispVars, dhistVars>>
    /\ Collect(arrays, [hstate EXCEPT ![NewHandle(rdoc[r][ri[r]])] = "openfail"])

\* NewDBFromConfig and db.Open succeed
AddOpenOK(r) ==
    /\ UNCHANGED <<quota, target>>
    /\ pc[r] = "open"
    /\ FreeGens(rdoc[r][ri[r]]) # {}
    /\ opens' = Append(opens, NewHandle(rdoc[r][ri[r]]))
    /\ rdb' = [rdb EXCEPT ![r] = NewHandle(rdoc[r][ri[r]])]
    /\ pc' = [pc EXCEPT ![r] = "append"]
    /\ UNCHANGED <<cmd, Config, DBs, rdoc, ri, rrange, rj,
                   pre, added, closes, status, failAt, dispVars, dhistVars>>
    /\ Collect(arrays, [hstate EXCEPT ![NewHandle(rdoc[r][ri[r]])] = "open"])

\* h.c.DBs = append(h.c.DBs, db)
AddAppend(r) ==
    /\ UNCHANGED <<quota, target>>
    /\ pc[r] = "append"
    /\ DBs' = AppendDB(DBs, rdb[r])[1]
    /\ added' = Append(added, rdb[r])
    /\ rdb' = [rdb EXCEPT ![r] = Nil]
    /\ ri' = [ri EXCEPT ![r] = ri[r] + 1]
    /\ pc' = [pc EXCEPT ![r] = "add"]
    /\ dclean' = FALSE
    /\ UNCHANGED <<cmd, Config, rdoc, rrange, rj,
                   pre, opens, closes, status, failAt, dispVars, dduring>>
    /\ Collect(AppendDB(DBs, rdb[r])[2], hstate)

\* one iteration of the removal loop up to the decision Remove / Keep, or the
\* end of the loop and the 200 response
RemoveCheck(r) ==
    /\ UNCHANGED <<quota, target>>
    /\ pc[r] = "remove"
    /\ IF rj[r] > rrange[r].len
       THEN /\ Return(r, 200, "none")
       ELSE IF NeedsRemove(arrays[rrange[r].arr][rj[r]], Config)
       THEN /\ rdb' = [rdb EXCEPT ![r] = arrays[rrange[r].arr][rj[r]]]
            /\ pc' = [pc EXCEPT ![r] = "close"]
            /\ UNCHANGED <<rdoc, ri, rrange, rj, status, failAt>>
       ELSE /\ rj' = [rj EXCEPT ![r] = rj[r] + 1]
            /\ UNCHANGED <<pc, rdoc, ri, rrange, rdb, status, failAt>>
    /\ UNCHANGED <<cmd, Config, DBs, pre, opens, added, closes, dispVars, dhistVars>>
    /\ Collect(arrays, hstate)

\* oldDB.Close fails: 500
RemoveCloseFail(r) ==
    /\ UNCHANGED <<quota, target>>
    /\ pc[r] = "close"
    /\ closes' = Append(closes, rdb[r])
    /\ Return(r, 500, "close")
    /\ UNCHANGED <<cmd, Config, DBs, pre, opens, added, dispVars, dhistVars>>
    /\ Collect(arrays, [hstate EXCEPT ![rdb[r]] = "closefail"])

\* oldDB.Close succeeds
RemoveCloseOK(r) ==
    /\ UNCHANGED <<quota, target>>
    /\ pc[r] = "close"
    /\ closes' = Append(closes, rdb[r])
    /\ pc' = [pc EXCEPT ![r] = "compact"]
    /\ UNCHANGED <<cmd, Config, DBs, rdoc, ri, rrange, rj, rdb,
                   pre, opens, added, status, failAt, dispVars, dhistVars>>
    /\ Collect(arrays, [hstate EXCEPT ![rdb[r]] = "closed"])

\* mutant: the compacted slice is not stored back into h.c.DBs
RemoveCompact_NotStored(r) ==
    /\ UNCHANGED <<quota, target>>
    /\ pc[r] = "compact"
    /\ rdb' = [rdb EXCEPT ![r] = Nil]
    /\ rj' = [rj EXCEPT ![r] = rj[r] + 1]
    /\ pc' = [pc EXCEPT ![r] = "remove"]
    /\ dclean' = FALSE
    /\ UNCHANGED <<cmd, Config, DBs, rdoc, ri, rrange, histVars, dispVars, dduring>>
    /\ Collect(arrays, hstate)

\* the compaction of h.c.DBs without oldDB, and h.c.DBs = h.c.DBs[:index]
RemoveCompact(r) ==
    /\ UNCHANGED <<quota, target>>
    /\ pc[r] = "compact"
    /\ DBs' = CompactDBs(DBs, rdb[r])[1]
    /\ rdb' = [rdb EXCEPT ![r] = Nil]
    /\ rj' = [rj EXCEPT ![r] = rj[r] + 1]
    /\ pc' = [pc EXCEPT ![r] = "remove"]
    /\ dclean' = FALSE
    /\ UNCHANGED <<cmd, Config, rdoc, ri, rrange, histVars, dispVars, dduring>>
    /\ Collect(CompactDBs(DBs, rdb[r])[2], hstate)

\* ------------------------------------- checkpoint / sync / snapshot handlers
\* h.c == nil: 500; r.Method != "POST": 405; the body does not decode: 400
RequestReject(q) ==
    /\ UNCHANGED <<quota, target>>
    /\ dpc = "idle"
    /\ Precheck(q) # 0
    /\ dpc' = "done"
    /\ dstatus' = Precheck(q)
    /\ dreq' = q
    /\ dclean' = TRUE
    /\ dduring' = Running
    /\ UNCHANGED <<progVars, relVars, histVars, dpath, drange, didx, ddb, dseen,
                   drep, dmode, dops>>

\* the checks pass; the lookup loop evaluates its range expression
LookupBegin(q, path) ==
    /\ UNCHANGED <<quota, target>>
    /\ dpc = "idle"
    /\ Precheck(q) = 0
    /\ dpc' = "scan"
    /\ dreq' = q
    /\ dpath' = path
    /\ drange' = DBs
    /\ didx' = 1
    /\ dclean' = TRUE
    /\ dduring' = Running
    /\ UNCHANGED <<progVars, relVars, histVars, ddb, dstatus, dseen, drep, dmode, dops>>

\* one iteration of the lookup loop, or its end with db == nil: 404
LookupStep ==
    /\ UNCHANGED <<quota, target>>
    /\ dpc = "scan"
    /\ IF didx > drange.len
       THEN /\ dpc' = "notfound"
            /\ dstatus' = 404
            /\ UNCHANGED <<ddb, didx, dseen>>
       ELSE /\ dseen' = Append(dseen, arrays[drange.arr][didx])
            /\ IF Matches(arrays[drange.arr][didx], dpath)
               THEN /\ ddb' = arrays[drange.arr][didx]
                    /\ dpc' = "found"
                    /\ UNCHANGED <<didx, dstatus>>
               ELSE /\ didx' = didx + 1
                    /\ UNCHANGED <<ddb, dpc, dstatus>>
    /\ UNCHANGED <<progVars, relVars, histVars, dpath, drange, dreq, drep, dmode, dops,
                   dhistVars>>

\* the scan of db.Replicas, with rep == nil: 404, and the choice of the mode;
\* the locals of the lookup loop are dead from here on
ReplicaLookup ==
    /\ UNCHANGED <<quota, target>>
    /\ dpc = "found"
    /\ IF \E k \in 1..Len(Replicas(ddb)) : Replicas(ddb)[k] = dreq.name
       THEN /\ drep' = dreq.name
            /\ dmode' = IF dreq.kind = "snapshot" THEN "none" ELSE ParseMode(dreq.mode)
            /\ dpc' = "op1"
            /\ UNCHANGED dstatus
       ELSE /\ dstatus' = 404
            /\ dpc' = "done"
            /\ UNCHANGED <<drep, dmode>>
    /\ drange' = NilSlice
    /\ didx' = 0
    /\ dseen' = <<>>
    /\ UNCHANGED <<cmd, Config, DBs, relVars, histVars, dpath, ddb, dreq, dops, dhistVars>>
    /\ Collect(arrays, hstate)

\* mutant: the error of a call is dropped
Invoke_IgnoresError(op, mode, next) ==
    \E ok \in BOOLEAN :
        /\ dops' = Append(dops, [op |-> op, mode |-> mode, ok |-> ok,
                                 closed |-> hstate[ddb] \in {"closed", "closefail"}])
        /\ IF next = "done" THEN dstatus' = 200 /\ dpc' = "done"
           ELSE dpc' = next /\ UNCHANGED dstatus

\* one call on db or rep: it fails (500, return) or succeeds, and then the
\* handler goes on to its next call or answers 200
Invoke(op, mode, next) ==
    \E ok \in BOOLEAN :
        /\ dops' = Append(dops, [op |-> op, mode |-> mode, ok |-> ok,
                                 closed |-> hstate[ddb] \in {"closed", "closefail"}])
        /\ IF ~ok THEN dstatus' = 500 /\ dpc' = "done"
           ELSE IF next = "done" THEN dstatus' = 200 /\ dpc' = "done"
           ELSE dpc' = next /\ UNCHANGED dstatus

\* CheckpointHandler: db.Checkpoint(mode), then rep.Sync if req.Sync
CheckpointOp ==
    /\ UNCHANGED <<quota, target>>
    /\ dreq.kind = "checkpoint"
    /\ \/ dpc = "op1" /\ Invoke("db.Checkpoint", dmode, IF dreq.flag THEN "op2" ELSE "done")
       \/ dpc = "op2" /\ Invoke("rep.Sync", "none", "done")
    /\ UNCHANGED <<progVars, relVars, histVars, dpath, drange, didx, ddb, dseen,
                   dreq, drep, dmode, dhistVars>>

\* mutant: the checkpoint is issued before the syncs
SyncOp_CheckpointFirst ==
    /\ UNCHANGED <<quota, target>>
    /\ dreq.kind = "sync"
    /\ \/ dpc = "op1" /\ IF dreq.flag THEN Invoke("db.Checkpoint", dmode, "op2")
                                      ELSE Invoke("db.Sync", "none", "op2")
       \/ dpc = "op2" /\ IF dreq.flag THEN Invoke("db.Sync", "none", "op3")
                                      ELSE Invoke("rep.Sync", "none", "done")
       \/ dpc = "op3" /\ Invoke("rep.Sync", "none", "done")
    /\ UNCHANGED <<progVars, relVars, histVars, dpath, drange, didx, ddb, dseen,
                   dreq, drep, dmode, dhistVars>>

\* SyncHandler: db.Sync, rep.Sync, then db.Checkpoint(mode) if req.Checkpoint
SyncOp ==
    /\ UNCHANGED <<quota, target>>
    /\ dreq.kind = "sync"
    /\ \/ dpc = "op1" /\ Invoke("db.Sync", "none", "op2")
       \/ dpc = "op2" /\ Invoke("rep.Sync", "none", IF dreq.flag THEN "op3" ELSE "done")
       \/ dpc = "op3" /\ Invoke("db.Checkpoint", dmode, "done")
    /\ UNCHANGED <<progVars, relVars, histVars, dpath, drange, didx, ddb, dseen,
                   dreq, drep, dmode, dhistVars>>

\* SnapshotHandler: rep.Snapshot, then rep.EnforceRetention if req.Cleanup
SnapshotOp ==
    /\ UNCHANGED <<quota, target>>
    /\ dreq.kind = "snapshot"
    /\ \/ dpc = "op1" /\ Invoke("rep.Snapshot", "none", IF dreq.flag THEN "op2" ELSE "done")
       \/ dpc = "op2" /\ Invoke("rep.EnforceRetention", "none", "done")
    /\ UNCHANGED <<progVars, relVars, histVars, dpath, drange, didx, ddb, dseen,
                   dreq, drep, dmode, dhistVars>>

\* the request returns: its locals die
LookupReturn ==
    /\ UNCHANGED <<quota, target>>
    /\ dpc \in {"notfound", "done"}
    /\ dpc' = "idle"
    /\ dpath' = NoPath
    /\ drange' = NilSlice
    /\ didx' = 0
    /\ ddb' = Nil
    /\ dstatus' = 0
    /\ dreq' = NoReq
    /\ drep' = NoName
    /\ dmode' = "none"
    /\ dops' = <<>>
    /\ dseen' = <<>>
    /\ dclean' = TRUE
    /\ dduring' = FALSE
    /\ UNCHANGED <<cmd, Config, DBs, relVars, histVars>>
    /\ Collect(arrays, hstate)

\* ------------------------------------------------------------ specifications
ReloadSteps ==
    \E r \in Reloaders :
        \/ ReloadEnd(r)
        \/ AddCheck(r)
        \/ AddNewFail(r)
        \/ AddOpenFail(r)
        \/ AddOpenOK(r)
        \/ AddAppend(r)
        \/ RemoveCheck(r)
        \/ RemoveCloseFail(r)
        \/ RemoveCloseOK(r)
        \/ RemoveCompact(r)

\* the requests LookupSpec serves while a reload runs: snapshot requests
\* with cleanup that pass the checks before the lookup
RaceRequests ==
    {q \in Requests : q.kind = "snapshot" /\ q.name = "r1" /\ q.flag}

LookupSteps ==
    \/ dpc = "idle" /\ \E q \in RaceRequests, p \in Paths : LookupBegin(q, p)
    \/ LookupStep
    \/ ReplicaLookup
    \/ SnapshotOp
    \/ LookupReturn

\* reload requests arrive one at a time
Next ==
    \/ \E r \in Reloaders, doc \in Docs : ReloadBegin(r, doc, TRUE)
    \/ \E r \in Reloaders : ReloadReadFail(r, TRUE)
    \/ \E r \in Reloaders : ReloadNil(r, TRUE)
    \/ ReloadSteps

Spec == Init /\ [][Next]_vars

\* reload requests arrive one at a time, while a checkpoint, sync or snapshot
\* request is served on its own goroutine
NextLookup ==
    \/ \E r \in Reloaders, doc \in DocsUpTo(MaxLookupDocLen) : ReloadBegin(r, doc, TRUE)
    \/ \E r \in Reloaders : ReloadReadFail(r, TRUE)
    \/ \E r \in Reloaders : ReloadNil(r, TRUE)
    \/ ReloadSteps
    \/ LookupSteps

LookupSpec == Init /\ [][NextLookup]_vars

\* reload, checkpoint, sync and snapshot requests arrive one at a time
NextRequest ==
    \/ dpc = "idle" /\ \E r \in Reloaders, doc \in DocsUpTo(MaxRequestDocLen) :
                           ReloadBegin(r, doc, TRUE)
    \/ ReloadSteps
    \/ Idle /\ dpc = "idle" /\ \E q \in Requests : RequestReject(q)
    \/ Idle /\ dpc = "idle" /\ \E q \in Requests, p \in Paths : LookupBegin(q, p)
    \/ LookupStep
    \/ ReplicaLookup
    \/ CheckpointOp
    \/ SyncOp
    \/ SnapshotOp
    \/ LookupReturn

RequestSpec == Init /\ [][NextRequest]_vars

\* reload requests are served concurrently, each on its own goroutine
NextConc ==
    \/ \E r \in Reloaders, doc \in DocsUpTo(MaxConcDocLen) : ReloadBegin(r, doc, FALSE)
    \/ \E r \in Reloaders : ReloadReadFail(r, FALSE)
    \/ \E r \in Reloaders : ReloadNil(r, FALSE)
    \/ ReloadSteps

ConcSpec == Init /\ [][NextConc]_vars

\* from some moment on, between two requests, ReadConfigFile returns one and
\* the same document, whose paths are unique
Settle(doc) ==
    /\ target = NoDoc
    /\ cmd = "set"
    /\ Idle
    /\ \A i, j \in 1..Len(doc) : doc[i] = doc[j] => i = j
    /\ target' = doc
    /\ UNCHANGED <<quota, progVars, relVars, histVars, dispVars, dhistVars>>

\* the steps of a reload in which nothing fails
ReloadOKSteps ==
    \E r \in Reloaders :
        \/ ReloadEnd(r)
        \/ AddCheck(r)
        \/ AddOpenOK(r)
        \/ AddAppend(r)
        \/ RemoveCheck(r)
        \/ RemoveCloseOK(r)
        \/ RemoveCompact(r)

\* the steps of a reload in which Open or Close fails
ReloadFailSteps ==
    \E r \in Reloaders :
        \/ AddOpenFail(r)
        \/ RemoveCloseFail(r)

\* the settled document is reloaded, one request at a time, and neither Open
\* nor Close fails
Reconverge ==
    /\ target # NoDoc
    /\ \/ \E r \in Reloaders : ReloadBegin(r, target, TRUE)
       \/ ReloadOKSteps
       \/ \E r \in Reloaders : AddNewFail(r)

\* reloads of any document, served one at a time, in which calls may fail;
\* then reloads of the settled document, in which Open and Close do not
NextConv ==
    \/ target = NoDoc /\ \E r \in Reloaders, doc \in DocsUpTo(MaxConvDocLen) :
                             ReloadBegin(r, doc, TRUE)
    \/ target = NoDoc /\ ReloadOKSteps
    \/ target = NoDoc /\ ReloadFailSteps
    \/ target = NoDoc /\ \E r \in Reloaders : AddNewFail(r)
    \/ \E doc \in DocsUpTo(MaxConvDocLen) : Settle(doc)
    \/ Reconverge

\* the reload requests keep arriving and every request that is being served
\* goes on to its response
ConvSpec == Init /\ [][NextConv]_vars /\ WF_vars(Reconverge)

\* ------------------------------------------------------------------ claims
\* a reload request has written its response and its history is still held
Finished == \E r \in Reloaders : pc[r] = "done"

\* the request got past ReadConfigFile: Config is the document it reconciles
Reconciling == (\E r \in Reloaders : pc[r] # "idle") /\ failAt \notin {"nil", "read"}

UniqueDoc(doc) == \A i, j \in 1..Len(doc) : doc[i] = doc[j] => i = j

IsPrefix(s, t) == Len(s) <= Len(t) /\ SubSeq(t, 1, Len(s)) = s

Restrict(seq, S) == LET In(x) == x \in S IN SelectSeq(seq, In)

\* C1: after a reload that answered 200 for a document with unique paths, the
\* paths of the running set are exactly the paths of the document.
C1_Convergence ==
    (Finished /\ status = 200 /\ UniqueDoc(Config))
        => PathsOf(View(DBs)) = Range(Config)

\* C2: in every reachable state, concurrent reloads included, the running set
\* holds at most one handle per path.
C2_OneHandlePerPath ==
    \A i, j \in 1..DBs.len :
        Path(View(DBs)[i]) = Path(View(DBs)[j]) => i = j

\* C3: in every reachable state, between the steps of a reload too, every
\* handle in the running set is open: Close has never been called on it and
\* its Open succeeded.
C3_RunningOpen ==
    \A h \in Range(View(DBs)) : hstate[h] = "open"

\* C4: the running set read by a lookup that overlaps a reload is the running
\* set as it was before the reload or as it is after it (a lookup that stops
\* at a match has read a prefix of it).
C4_AtomicView ==
    (Finished /\ Reconciling /\ dduring /\ dpc \in {"found", "notfound"})
        => IF dpc = "notfound"
           THEN dseen = pre \/ dseen = View(DBs)
           ELSE IsPrefix(dseen, pre) \/ IsPrefix(dseen, View(DBs))

\* C5: a reload whose document has exactly the paths of the running set calls
\* neither Open nor Close, leaves the running set as it was, and answers 200.
C5_Idempotent ==
    (Reconciling /\ PathsOf(pre) = Range(Config))
        => /\ opens = <<>>
           /\ closes = <<>>
           /\ View(DBs) = pre
           /\ Finished => status = 200

C5_Witness ==
    /\ Finished /\ Reconciling /\ status = 200
    /\ Len(pre) = 2
    /\ PathsOf(pre) = Range(Config)

\* C6: a handle that was running when the reload started and whose path is in
\* the new document is neither opened nor closed nor replaced by the reload,
\* and is in the running set at every step and at the end of the reload,
\* whether the reload answers 200 or 500.
C6_KeptUntouched ==
    Reconciling =>
        \A h \in Range(pre) :
            Path(h) \in Range(Config)
                => /\ h \notin Range(opens)
                   /\ h \notin Range(closes)
                   /\ \A g \in Range(opens) : Path(g) # Path(h)
                   /\ h \in Range(View(DBs))

C6_Witness ==
    /\ Finished /\ Reconciling
    /\ opens # <<>>
    /\ closes # <<>>
    /\ \E h \in Range(pre) : Path(h) \in Range(Config)

\* C7: handles that are in the running set before and after a reload keep
\* their relative order; the handles the reload added come after all of them,
\* in document order.
C7_OrderPreserved ==
    (Finished /\ Reconciling) =>
        LET post == View(DBs)
            common == Range(pre) \cap Range(post)
            fresh == Range(post) \ Range(pre)
            new == Restrict(post, fresh)
            Pos(path) == CHOOSE k \in 1..Len(Config) :
                            Config[k] = path /\ \A m \in 1..(k - 1) : Config[m] # path
        IN /\ Restrict(pre, common) = Restrict(post, common)
           /\ \A i, j \in 1..Len(post) :
                  (i < j /\ post[i] \in fresh) => post[j] \in fresh
           /\ new = added
           /\ \A i, j \in 1..Len(new) : i < j => Pos(Path(new[i])) < Pos(Path(new[j]))

C7_Witness ==
    /\ Finished /\ Reconciling
    /\ Len(Restrict(pre, Range(View(DBs)))) >= 2
    /\ pre[1] \notin Range(View(DBs))

\* C8: when building or opening the handle of an entry fails, the reload has
\* answered 500, the running set is the one at the start followed by the
\* handles added before the failure, the failed handle is not in it, Open was
\* called on nothing after the failure, and Close was called on nothing.
C8_AddFailure ==
    (Finished /\ failAt \in {"new", "open"}) =>
        /\ status = 500
        /\ View(DBs) = pre \o added
        /\ closes = <<>>
        /\ \A h \in Range(pre) : hstate[h] # "closed"
        /\ failAt = "new" => opens = added
        /\ failAt = "open" =>
              /\ opens = Append(added, opens[Len(opens)])
              /\ opens[Len(opens)] \notin Range(View(DBs))

C8_Witness ==
    /\ Finished /\ failAt = "open"
    /\ Len(added) = 1
    /\ \E h \in Range(pre) : Path(h) \notin Range(Config)

\* C9: when Close fails in the removal pass, the reload has answered 500, the
\* handles closed earlier in the pass are out of the running set, the handle
\* whose Close failed and all other handles are still in it, and Close was
\* called on nothing after the failure.
C9_CloseFailure ==
    (Finished /\ failAt = "close") =>
        LET n == Len(closes)
            gone == {closes[k] : k \in 1..(n - 1)}
        IN /\ status = 500
           /\ closes[n] \notin gone
           /\ closes[n] \in Range(View(DBs))
           /\ View(DBs) = Restrict(pre \o added, Range(pre \o added) \ gone)

\* C10: the lookup resolves to a handle whose path is the requested path, the
\* first such handle of the running set, whenever the running set has one,
\* and answers 404 only when the running set has none.
C10_Lookup ==
    /\ dpc = "found" => Path(ddb) = dpath
    /\ dpc = "notfound" => dstatus = 404
    /\ (dclean /\ dpc = "found") =>
           \E k \in 1..DBs.len :
               /\ View(DBs)[k] = ddb
               /\ \A m \in 1..(k - 1) : Path(View(DBs)[m]) # dpath
    /\ (dclean /\ dpc = "notfound") => dpath \notin PathsOf(View(DBs))

C10_Witness ==
    /\ dpc = "found"
    /\ dclean
    /\ didx >= 2
    /\ DBs.len > didx

\* the names of the operations a request has invoked, in order
OpNames == [k \in 1..Len(dops) |-> dops[k].op]

AllOk == \A k \in 1..Len(dops) : dops[k].ok

\* the request got past the lookup of its database and of its replica
PassedLookup == drep # NoName

\* C11: in a checkpoint, sync or snapshot request that passed the lookup the
\* operations are invoked in the fixed order of its handler (checkpoint:
\* db.Checkpoint, rep.Sync if sync; sync: db.Sync, rep.Sync, db.Checkpoint if
\* checkpoint; snapshot: rep.Snapshot, rep.EnforceRetention if cleanup), nothing
\* is invoked after an operation that failed, the response is 500 exactly
\* when an operation failed and 200 exactly when all of them were invoked
\* and succeeded.
C11_ShortCircuit ==
    LET plan == IF dreq.kind = "checkpoint"
                THEN <<"db.Checkpoint">> \o (IF dreq.flag THEN <<"rep.Sync">> ELSE <<>>)
                ELSE IF dreq.kind = "sync"
                THEN <<"db.Sync", "rep.Sync">> \o (IF dreq.flag THEN <<"db.Checkpoint">> ELSE <<>>)
                ELSE <<"rep.Snapshot">> \o (IF dreq.flag THEN <<"rep.EnforceRetention">> ELSE <<>>)
    IN PassedLookup =>
          /\ IsPrefix(OpNames, plan)
          /\ \A k \in 1..(Len(dops) - 1) : dops[k].ok
          /\ dstatus \in {0, 200, 500}
          /\ dstatus = 0 <=> dpc # "done"
          /\ dstatus = 500 <=> (dops # <<>> /\ ~dops[Len(dops)].ok)
          /\ dstatus = 200 <=> (OpNames = plan /\ AllOk)

C11_Witness ==
    /\ dpc = "done" /\ PassedLookup
    /\ dreq.kind = "snapshot"
    /\ Len(dops) = 2 /\ dops[1].ok /\ ~dops[2].ok
    /\ dstatus = 500

\* C12: a mode string that is absent or is not exactly FULL, RESTART or
\* TRUNCATE is parsed like PASSIVE: every db.Checkpoint of a checkpoint
\* request, or of a sync request with checkpoint set, whose mode string is not
\* one of the three is called with mode PASSIVE (with the named mode
\* otherwise), and such a request is answered like any other: 200 when its
\* operations succeeded, 500 when one failed, never a rejection.
C12_ModeDefault ==
    /\ \A k \in 1..Len(dops) :
           dops[k].op = "db.Checkpoint" =>
               dops[k].mode = IF dreq.mode \in {"FULL", "RESTART", "TRUNCATE"}
                              THEN dreq.mode ELSE "PASSIVE"
    /\ (PassedLookup /\ dpc = "done" /\ dreq.mode \notin {"FULL", "RESTART", "TRUNCATE"}) =>
           dstatus = IF AllOk THEN 200 ELSE 500

C12_Witness ==
    /\ dpc = "done" /\ dstatus = 200
    /\ dreq.kind = "checkpoint"
    /\ dreq.mode = "full"
    /\ dops[1].op = "db.Checkpoint" /\ dops[1].mode = "PASSIVE"

\* C13: a checkpoint, sync or snapshot request is answered with the status of
\* the first check that fails, in the order nil command (500), method other
\* than POST (405), body that does not decode (400), database path not in
\* the running set (404), replica name not among the replicas of the database
\* (404), and a request rejected this way has invoked no operation; a request
\* that passes them all is not rejected.
C13_Rejection ==
    LET hits == {k \in 1..DBs.len : Path(View(DBs)[k]) = dpath}
        first == CHOOSE k \in hits : \A m \in hits : k <= m
        expected ==
            IF cmd = "nil" THEN 500
            ELSE IF dreq.method # "POST" THEN 405
            ELSE IF dreq.body # "json" THEN 400
            ELSE IF hits = {} THEN 404
            ELSE IF dreq.name \notin Range(Replicas(View(DBs)[first])) THEN 404
            ELSE 0
    IN /\ dpc \in {"done", "notfound"} =>
              IF expected # 0
              THEN dstatus = expected /\ dops = <<>>
              ELSE dstatus \in {200, 500} /\ dops # <<>>
       /\ dstatus \in {400, 404, 405} => dops = <<>>

C13_Witness ==
    /\ dpc = "done" /\ dstatus = 404
    /\ ddb # Nil
    /\ dreq.name = "r2"
    /\ DBs.len >= 2

\* C16: a sync request with checkpoint set that passed the lookup invokes
\* db.Sync, rep.Sync and then db.Checkpoint, in the mode its checkpoint-mode
\* names; the checkpoint is invoked only after both syncs succeeded, and the
\* response is 200 exactly when all three were invoked and succeeded.
C16_SyncThenCheckpoint ==
    (dreq.kind = "sync" /\ dreq.flag /\ PassedLookup) =>
        /\ IsPrefix(OpNames, <<"db.Sync", "rep.Sync", "db.Checkpoint">>)
        /\ Len(dops) = 3 =>
              /\ dops[1].ok /\ dops[2].ok
              /\ dops[3].mode = IF dreq.mode \in {"FULL", "RESTART", "TRUNCATE"}
                                THEN dreq.mode ELSE "PASSIVE"
        /\ dstatus = 200 <=> (Len(dops) = 3 /\ AllOk)
        /\ (dpc = "done" /\ dstatus # 200) => dstatus = 500 /\ ~AllOk

C16_Witness ==
    /\ dpc = "done" /\ dstatus = 200
    /\ dreq.kind = "sync" /\ dreq.flag
    /\ Len(dops) = 3
    /\ dops[3].mode = "TRUNCATE"

\* C14: within one reload served alone, the removal pass runs only when every
\* entry of the document has been processed, the entries are processed one
\* after another in document order, each Open is on the handle of the entry
\* being processed, and no Open follows a Close.
C14_AddBeforeRemove ==
    /\ [](\A r \in Reloaders :
             pc[r] \in {"remove", "close", "compact"} => ri[r] = Len(rdoc[r]) + 1)
    /\ [](closes # <<>> => \A r \in Reloaders : pc[r] \notin {"add", "open", "append"})
    /\ [][\A r \in Reloaders :
             ri'[r] # ri[r] => (ri'[r] = ri[r] + 1 \/ ri'[r] = 0)]_vars
    /\ [][(opens' # opens /\ opens' # <<>>) =>
             /\ closes = <<>> /\ closes' = <<>>
             /\ \E r \in Reloaders :
                    /\ pc[r] = "open"
                    /\ opens' = Append(opens, opens'[Len(opens')])
                    /\ Path(opens'[Len(opens')]) = rdoc[r][ri[r]]]_vars

C14_Witness ==
    /\ Len(opens) = 2
    /\ closes # <<>>
    /\ Path(opens[1]) = Config[1] /\ Path(opens[2]) = Config[2]

\* C15: while reloads and checkpoint, sync and snapshot requests interleave,
\* no operation is invoked on a handle, or on a replica of a handle, that a
\* reload has already called Close on.
C15_NoOpOnRemoved ==
    \A k \in 1..Len(dops) : ~dops[k].closed

\* C17: within one reload served alone, Close is called at most once on any
\* handle, and every handle the reload has dropped from the running set had
\* Close called on it.
C17_ClosedOnce ==
    Reconciling =>
        /\ \A i, j \in 1..Len(closes) : closes[i] = closes[j] => i = j
        /\ \A h \in Range(pre \o added) \ Range(View(DBs)) : h \in Range(closes)

\* C18: the step that serves a reload whose configuration cannot be read or
\* parsed answers 500 and leaves the running set, its backing memory, the
\* state of every handle and the stored Config as they were; no Open and no
\* Close is called by that request.
C18_ReadFailure ==
    /\ [][(failAt' = "read" /\ failAt # "read") =>
             /\ status' = 500
             /\ Config' = Config
             /\ DBs' = DBs
             /\ arrays' = arrays
             /\ hstate' = hstate
             /\ opens' = <<>> /\ closes' = <<>>]_vars
    /\ [](failAt = "read" =>
             /\ Finished /\ status = 500
             /\ View(DBs) = pre
             /\ opens = <<>> /\ added = <<>> /\ closes = <<>>)

C18_Witness ==
    /\ Finished /\ failAt = "read"
    /\ Config # <<>>
    /\ DBs.len >= 2
    /\ \E h \in Range(View(DBs)) : hstate[h] = "closefail"

\* the running set has the paths of the settled document
Converged == PathsOf(View(DBs)) = Range(target)

====
